---- MODULE Spec2Model ----
(***************************************************************************)
(* Model of the flow editor's node factory (nodeFactory.js), of the canvas *)
(* event handlers of Flow, and of the palette's drag handler               *)
(* (NodeBlockComposer).  JavaScript values are modelled as follows:        *)
(*   - strings are TLA+ strings; the value undefined, where a string is    *)
(*     expected, is the reserved marker string `undefined`;                *)
(*   - objects are records; null is the record `null`;                     *)
(*   - a function bound with settings.bind(null, {nodeId}) is the record   *)
(*     of the bound function's name and its bound argument.                *)
(***************************************************************************)
EXTENDS Integers, Sequences, FiniteSets, TLC

VARIABLES
  id,            \* id[T]: the `let id` of the closure nodeFactory built for type T
  nodes,         \* node store: state.nodes
  selectedNode,  \* node store: state.selectedNode
  edges,         \* edge store: state.edges
  dataTransfer,  \* event.dataTransfer's data under the editor's mime type, of the drag in progress
  handler,       \* the handler that ran last
  arg,           \* the event that handler was called with
  ret,           \* outcome of the last createNode call
  returned       \* history: returned[T] = number of createNode(T, _) calls that returned a node

vars == <<id, nodes, selectedNode, edges, dataTransfer, handler, arg, ret, returned>>

store == <<nodes, selectedNode, edges>>

----------------------------------------------------------------------------
(* Bounds of the model *)

MaxId == 2      \* a factory is called while its counter is at most MaxId
MaxNodes == 3   \* a drop is taken while the store holds fewer than MaxNodes nodes

----------------------------------------------------------------------------
(* JavaScript values *)

null == [null |-> TRUE]

undefined == "<undefined>"

\* no drag is in progress: there is no event.dataTransfer
NoDrag == "<no drag>"

\* !v for a string-or-undefined v
FalsyString(v) == v \in {undefined, ""}

\* !v for an object-or-null v
FalsyObject(v) == v = null

----------------------------------------------------------------------------
(* Node identifiers and the registry *)

MESSAGE_NODE_IDENTIFIER == "messageNode"

SELECT_NODE_IDENTIFIER == "selectNode"

\* own keys of the nodeCreator object
NodeCreatorKeys == {MESSAGE_NODE_IDENTIFIER, SELECT_NODE_IDENTIFIER}

\* the settings component each factory is built with
Settings(identifier) ==
  IF identifier = MESSAGE_NODE_IDENTIFIER THEN "MessageNodeSettings"
  ELSE "SelectNodeSettings"

\* `${identifier}_${id++}`: the string built from the counter's value before the increment
getNodeId(identifier, n) == identifier \o "_" \o ToString(n)

\* the dataComposer each factory is built with
dataComposer(identifier, nodeId) ==
  IF identifier = MESSAGE_NODE_IDENTIFIER
  THEN [message |-> "Default message for " \o nodeId]
  ELSE [item |-> null]

\* nodeFactory with the settings renderer bound after the counter moved on
nodeFactoryBoundLate(identifier, n, position) ==
  LET nodeId == getNodeId(identifier, n) IN
  [ draggable        |-> TRUE,
    selectable       |-> TRUE,
    id               |-> nodeId,
    type             |-> identifier,
    position         |-> position,
    data             |-> dataComposer(identifier, nodeId),
    settingsRenderer |-> [settings |-> Settings(identifier),
                          nodeId |-> getNodeId(identifier, n + 1)] ]

\* the node creator returned by nodeFactory(identifier, settings, dataComposer),
\* called with `position` while the closure's counter is n
nodeFactory(identifier, n, position) ==
  LET nodeId == getNodeId(identifier, n) IN
  [ draggable        |-> TRUE,
    selectable       |-> TRUE,
    id               |-> nodeId,
    type             |-> identifier,
    position         |-> position,
    data             |-> dataComposer(identifier, nodeId),
    settingsRenderer |-> [settings |-> Settings(identifier), nodeId |-> nodeId] ]

\* id++ on a counter that all the factories share
NextIdShared(ids, identifier) == [t \in DOMAIN ids |-> ids[t] + 1]

\* the counter of the closure after one call of its node creator (id++)
NextId(ids, identifier) == [ids EXCEPT ![identifier] = @ + 1]

----------------------------------------------------------------------------
(* createNode *)

\* property names nodeCreator inherits from Object.prototype that the model draws
ObjectPrototypeKeys == {"constructor", "__proto__"}

\* nodeCreator[type]: "factory" for an own key, the inherited value's name for a
\* key found on the prototype chain, "undefined" otherwise
nodeCreatorLookup(type) ==
  IF type \in NodeCreatorKeys THEN "factory"
  ELSE IF type \in ObjectPrototypeKeys THEN type
  ELSE "undefined"

\* outcome of a call that threw new Error(message)
Threw(type, position, message) ==
  [called |-> TRUE, type |-> type, position |-> position,
   threw |-> TRUE, error |-> message, value |-> null]

\* outcome of a call that returned value
Returned(type, position, value) ==
  [called |-> TRUE, type |-> type, position |-> position,
   threw |-> FALSE, error |-> "", value |-> value]

\* no call of createNode was made
NotCalled ==
  [called |-> FALSE, type |-> undefined, position |-> null,
   threw |-> FALSE, error |-> "", value |-> null]

\* createNode(type, position), called while the factories' counters are `ids`:
\* the outcome of the call
createNode(type, position, ids) ==
  IF FalsyString(type) THEN Threw(type, position, "Node type is required")
  ELSE IF FalsyObject(position) THEN Threw(type, position, "Node position is required")
  ELSE LET creator == nodeCreatorLookup(type) IN
    IF creator = "undefined"
      THEN Threw(type, position, "Node type: " \o type \o " is not supported")
    ELSE IF creator = "factory"
      THEN Returned(type, position, nodeFactory(type, ids[type], position))
    ELSE IF creator = "constructor"
      \* Object.prototype.constructor is Object: Object(position) is position itself
      THEN Returned(type, position, position)
    \* nodeCreator["__proto__"] is Object.prototype, an object that is not callable
    ELSE Threw(type, position, "TypeError: nodeCreator[type] is not a function")

\* the factories' counters after createNode(type, position)
createNodeIds(type, position, ids) ==
  IF ~FalsyString(type) /\ ~FalsyObject(position) /\ nodeCreatorLookup(type) = "factory"
  THEN NextId(ids, type)
  ELSE ids

\* history: one more returned node for a registered type
Count(type, r, cnt) ==
  IF ~r.threw /\ type \in NodeCreatorKeys THEN [cnt EXCEPT ![type] = @ + 1] ELSE cnt

----------------------------------------------------------------------------
(* The stores (hooks/useStore) *)

addNode(ns, node) == Append(ns, node)

setSelectedNode(sel, node) == node

setNodes(ns, updates) == updates

setEdges(es, updates) == updates

----------------------------------------------------------------------------
(* Inputs *)

\* the type arguments createNode is called with
TypeInputs ==
  {undefined, "", MESSAGE_NODE_IDENTIFIER, SELECT_NODE_IDENTIFIER,
   "unknownNode", "constructor", "__proto__"}

\* drag data a drag source other than the palette can put under the mime type
ForeignDragData == {"", "unknownNode", "constructor"}

\* event.clientX, event.clientY of a drop
ClientPoints == {[x |-> 47, y |-> 73], [x |-> 52, y |-> 66]}

\* reactFlowWrapper.current.getBoundingClientRect()
Left == 10

Top == 10

\* flowViewSettings
SnapGrid == 20

ViewportX == 0

ViewportY == 0

\* defaultViewport.zoom = 1.5 = ZoomNum / ZoomDen
ZoomNum == 3

ZoomDen == 2

\* snap * Math.round(((c - t) / zoom) / snap), Math.round(q) = floor(q + 1/2)
Snap(c, t) ==
  SnapGrid * ((2 * (c - t) * ZoomDen + SnapGrid * ZoomNum) \div (2 * SnapGrid * ZoomNum))

\* reactFlowInstance.project(point)
project(point) == [x |-> Snap(point.x, ViewportX), y |-> Snap(point.y, ViewportY)]

\* the drop point relative to the wrapper's bounds
Relative(client) == [x |-> client.x - Left, y |-> client.y - Top]

\* the position arguments createNode is called with
PositionInputs == {null, [x |-> 20, y |-> 40], [x |-> 120, y |-> 0]}

\* the store's entries the canvas library shows as nodes
IsNode(n) == "id" \in DOMAIN n

NodeIndexes == {i \in 1..Len(nodes) : IsNode(nodes[i])}

----------------------------------------------------------------------------
(* Library functions of the canvas (reactflow) the handlers call *)

\* applyNodeChanges(changes, items) for one change of type 'remove'
applyRemove(items, i) == SubSeq(items, 1, i - 1) \o SubSeq(items, i + 1, Len(items))

\* getEdgeId(params), no handles
getEdgeId(source, target) == "reactflow__edge-" \o source \o "-" \o target

\* addEdge(params, edges): edges when the connection exists, else edges with the new edge last
addEdge(source, target, es) ==
  IF \E k \in 1..Len(es) : es[k].source = source /\ es[k].target = target
  THEN es
  ELSE Append(es, [id |-> getEdgeId(source, target), source |-> source, target |-> target])

----------------------------------------------------------------------------
(* State machine *)

Init ==
  /\ id = [t \in NodeCreatorKeys |-> 1]
  /\ nodes = <<>>
  /\ selectedNode = null
  /\ edges = <<>>
  /\ dataTransfer = NoDrag
  /\ handler = "init"
  /\ arg = null
  /\ ret = NotCalled
  /\ returned = [t \in NodeCreatorKeys |-> 0]

\* a factory's counter stays within the model's bound
WithinBound(type) == type \in NodeCreatorKeys => id[type] <= MaxId

\* the lists of selected nodes the canvas reports
Selections ==
  {<<>>} \cup {<<nodes[i]>> : i \in NodeIndexes}
         \cup {<<nodes[p[1]], nodes[p[2]]>> :
                 p \in {q \in NodeIndexes \X NodeIndexes : q[1] # q[2]}}

\* a call of the exported createNode(type, position) by a caller other than onDrop
CreateNode ==
  \E type \in TypeInputs, position \in PositionInputs :
    /\ dataTransfer = NoDrag
    /\ WithinBound(type)
    /\ ret' = createNode(type, position, id)
    /\ id' = createNodeIds(type, position, id)
    /\ returned' = Count(type, ret', returned)
    /\ handler' = "createNode"
    /\ arg' = null
    /\ UNCHANGED <<nodes, selectedNode, edges, dataTransfer>>

\* NodeBlockComposer.dragHandler: a palette block starts a drag
dragHandler ==
  \E identifier \in NodeCreatorKeys :
    /\ dataTransfer = NoDrag
    /\ dataTransfer' = identifier
    /\ handler' = "dragHandler"
    /\ arg' = null
    /\ ret' = NotCalled
    /\ UNCHANGED <<id, nodes, selectedNode, edges, returned>>

\* a drag that starts outside the palette
foreignDrag ==
  \E data \in ForeignDragData :
    /\ dataTransfer = NoDrag
    /\ dataTransfer' = data
    /\ handler' = "foreignDrag"
    /\ arg' = null
    /\ ret' = NotCalled
    /\ UNCHANGED <<id, nodes, selectedNode, edges, returned>>

\* onDrop projecting the drop point without the wrapper's bounds
onDropUnbounded ==
  \E client \in ClientPoints :
    LET nodeType == dataTransfer
        position == project(client)
    IN
    /\ dataTransfer # NoDrag
    /\ Len(nodes) < MaxNodes
    /\ WithinBound(nodeType)
    /\ handler' = "onDrop"
    /\ arg' = [nodeType |-> nodeType, client |-> client]
    /\ IF FalsyString(nodeType)
       THEN /\ ret' = NotCalled
            /\ UNCHANGED <<id, nodes, returned>>
       ELSE /\ ret' = createNode(nodeType, position, id)
            /\ id' = createNodeIds(nodeType, position, id)
            /\ returned' = Count(nodeType, ret', returned)
            /\ nodes' = IF ret'.threw THEN nodes ELSE addNode(nodes, ret'.value)
    /\ dataTransfer' = NoDrag
    /\ UNCHANGED <<selectedNode, edges>>

\* Flow.onDrop
onDrop ==
  \E client \in ClientPoints :
    LET nodeType == dataTransfer
        position == project(Relative(client))
    IN
    /\ dataTransfer # NoDrag
    /\ Len(nodes) < MaxNodes
    /\ WithinBound(nodeType)
    /\ handler' = "onDrop"
    /\ arg' = [nodeType |-> nodeType, client |-> client]
    /\ IF FalsyString(nodeType)
       THEN /\ ret' = NotCalled
            /\ UNCHANGED <<id, nodes, returned>>
       ELSE /\ ret' = createNode(nodeType, position, id)
            /\ id' = createNodeIds(nodeType, position, id)
            /\ returned' = Count(nodeType, ret', returned)
            /\ nodes' = IF ret'.threw THEN nodes ELSE addNode(nodes, ret'.value)
    /\ dataTransfer' = NoDrag
    /\ UNCHANGED <<selectedNode, edges>>

\* onSelectionChange storing nodes[0] whatever the list holds
onSelectionChangeAlways ==
  \E selection \in Selections :
    /\ dataTransfer = NoDrag
    /\ selectedNode' =
         IF Len(selection) # 0 THEN setSelectedNode(selectedNode, selection[1])
         ELSE setSelectedNode(selectedNode, null)
    /\ handler' = "onSelectionChange"
    /\ arg' = [nodes |-> selection]
    /\ ret' = NotCalled
    /\ UNCHANGED <<id, nodes, edges, dataTransfer, returned>>

\* Flow.onSelectionChange
onSelectionChange ==
  \E selection \in Selections :
    /\ dataTransfer = NoDrag
    /\ selectedNode' =
         IF Len(selection) # 0 THEN setSelectedNode(selectedNode, selection[1])
         ELSE selectedNode
    /\ handler' = "onSelectionChange"
    /\ arg' = [nodes |-> selection]
    /\ ret' = NotCalled
    /\ UNCHANGED <<id, nodes, edges, dataTransfer, returned>>

\* onNodesDelete clearing the selection only when the selected node is deleted
onNodesDeleteSelected ==
  \E deleted \in Selections \ {<<>>} :
    /\ dataTransfer = NoDrag
    /\ selectedNode' =
         IF \E k \in 1..Len(deleted) : deleted[k] = selectedNode
         THEN setSelectedNode(selectedNode, null)
         ELSE selectedNode
    /\ handler' = "onNodesDelete"
    /\ arg' = [nodes |-> deleted]
    /\ ret' = NotCalled
    /\ UNCHANGED <<id, nodes, edges, dataTransfer, returned>>

\* Flow.onNodesDelete, called by the canvas with the nodes being deleted
onNodesDelete ==
  \E deleted \in Selections \ {<<>>} :
    /\ dataTransfer = NoDrag
    /\ selectedNode' = setSelectedNode(selectedNode, null)
    /\ handler' = "onNodesDelete"
    /\ arg' = [nodes |-> deleted]
    /\ ret' = NotCalled
    /\ UNCHANGED <<id, nodes, edges, dataTransfer, returned>>

\* an edge of the store starts or ends at the node
Connected(node) ==
  \E k \in 1..Len(edges) : node.id \in {edges[k].source, edges[k].target}

\* Flow.onNodesChange with a 'remove' change of one node; the canvas reports the
\* removal of a node once the node's edges are removed
onNodesChange ==
  \E i \in NodeIndexes :
    /\ dataTransfer = NoDrag
    /\ ~Connected(nodes[i])
    /\ nodes' = setNodes(nodes, applyRemove(nodes, i))
    /\ handler' = "onNodesChange"
    /\ arg' = null
    /\ ret' = NotCalled
    /\ UNCHANGED <<id, selectedNode, edges, dataTransfer, returned>>

\* Flow.onEdgesChange with a 'remove' change of one edge
onEdgesChange ==
  \E k \in 1..Len(edges) :
    /\ dataTransfer = NoDrag
    /\ edges' = setEdges(edges, applyRemove(edges, k))
    /\ handler' = "onEdgesChange"
    /\ arg' = null
    /\ ret' = NotCalled
    /\ UNCHANGED <<id, nodes, selectedNode, dataTransfer, returned>>

\* Flow.onConnect: the user connects a node of the canvas to the next one
onConnect ==
  \E i \in NodeIndexes :
    /\ dataTransfer = NoDrag
    /\ i + 1 \in NodeIndexes
    /\ edges' = setEdges(edges, addEdge(nodes[i].id, nodes[i + 1].id, edges))
    /\ handler' = "onConnect"
    /\ arg' = null
    /\ ret' = NotCalled
    /\ UNCHANGED <<id, nodes, selectedNode, dataTransfer, returned>>

Next ==
  \/ dragHandler
  \/ foreignDrag
  \/ onDrop
  \/ onSelectionChange
  \/ onNodesDelete
  \/ onNodesChange
  \/ onEdgesChange
  \/ onConnect

\* the canvas: the palette, the drops and the canvas library's events
Spec == Init /\ [][Next]_vars

NextFactory == CreateNode

\* the node factory alone, under calls of createNode with every kind of argument
SpecFactory == Init /\ [][NextFactory]_vars

----------------------------------------------------------------------------
(* Properties *)

\* the last createNode call returned (did not throw)
Succeeded == ret.called /\ ~ret.threw

\* C1: the k-th call of createNode that returns a node of a registered type T,
\* counted per type over every interleaving with calls for the other type and
\* with calls that throw, returns the node whose id is "T_k".
C1_SequentialIds ==
  Succeeded /\ ret.type \in NodeCreatorKeys =>
    ret.value.id = ret.type \o "_" \o ToString(returned[ret.type])

\* the second select node is created after one message node
C1_Witness ==
  /\ handler = "createNode"
  /\ Succeeded
  /\ ret.type = SELECT_NODE_IDENTIFIER
  /\ returned[SELECT_NODE_IDENTIFIER] = 2
  /\ returned[MESSAGE_NODE_IDENTIFIER] = 1
  /\ ret.value.id = "selectNode_2"

\* C2: whatever createNode(type, position) returns is a record with
\* draggable = TRUE, selectable = TRUE, the requested type, the position passed
\* in and the type's default data ("Default message for <id>" with its own id
\* for a message node, item = null for a select node).
C2_Defaults ==
  Succeeded =>
    LET node == ret.value IN
    /\ {"draggable", "selectable", "id", "type", "position", "data"} \subseteq DOMAIN node
    /\ node.draggable = TRUE
    /\ node.selectable = TRUE
    /\ node.type = ret.type
    /\ node.position = ret.position
    /\ ret.type = MESSAGE_NODE_IDENTIFIER =>
         node.data = [message |-> "Default message for " \o node.id]
    /\ ret.type = SELECT_NODE_IDENTIFIER => node.data = [item |-> null]

\* C3: the nodeId bound into a node's settings renderer is the node's own id,
\* for the node createNode returns and for every node of the store, whatever
\* nodes were created after it.
C3_BoundNodeId ==
  /\ Succeeded /\ IsNode(ret.value) => ret.value.settingsRenderer.nodeId = ret.value.id
  /\ \A i \in NodeIndexes : nodes[i].settingsRenderer.nodeId = nodes[i].id

\* a drop added a second node of the type of the store's first node
C3_Witness ==
  /\ handler = "onDrop"
  /\ Succeeded
  /\ NodeIndexes = {1, 2}
  /\ nodes[1].type = nodes[2].type
  /\ nodes[1].id # nodes[2].id
  /\ nodes[1].settingsRenderer.nodeId = nodes[1].id

\* C4: a drop whose drag data is a registered type appends exactly one node,
\* the one createNode builds for that type at the projected drop position: the
\* nodes already in the store keep their content and order, the new node is
\* last, and the edges and the selected node are unchanged.
C4_DropAppends ==
  [][handler' = "onDrop" /\ dataTransfer \in NodeCreatorKeys =>
       /\ Len(nodes') = Len(nodes) + 1
       /\ SubSeq(nodes', 1, Len(nodes)) = nodes
       /\ nodes'[Len(nodes')] =
            nodeFactory(dataTransfer, id[dataTransfer], project(Relative(arg'.client)))
       /\ nodes'[Len(nodes')].id =
            dataTransfer \o "_" \o ToString(returned[dataTransfer] + 1)
       /\ edges' = edges
       /\ selectedNode' = selectedNode]_vars

\* a drop added a third node to a store with an edge and a selected node
C4_Witness ==
  /\ handler = "onDrop"
  /\ arg.nodeType \in NodeCreatorKeys
  /\ Len(nodes) = 3
  /\ nodes[3] = ret.value
  /\ nodes[3].position = [x |-> 20, y |-> 40]
  /\ edges # <<>>
  /\ selectedNode # null

\* C5: createNode throws 'Node type is required' for a missing type, 'Node
\* position is required' for a missing position and 'Node type: <type> is not
\* supported' for a type with no registered factory, and a call that throws
\* leaves every counter unchanged.
C5_Errors ==
  [][handler' = "createNode" =>
       /\ FalsyString(ret'.type) =>
            ret'.threw /\ ret'.error = "Node type is required"
       /\ ~FalsyString(ret'.type) /\ FalsyObject(ret'.position) =>
            ret'.threw /\ ret'.error = "Node position is required"
       /\ ~FalsyString(ret'.type) /\ ~FalsyObject(ret'.position)
            /\ ret'.type \notin NodeCreatorKeys =>
            ret'.threw /\ ret'.error = "Node type: " \o ret'.type \o " is not supported"
       /\ ret'.threw => id' = id]_vars

\* C6: a drop whose drag data is undefined or empty calls no createNode and
\* changes no counter, node, edge or selected node; a drop whose drag data is
\* a non-empty type with no registered factory adds nothing to the store's nodes.
C6_InvalidDropNoOp ==
  [][handler' = "onDrop" =>
       /\ FalsyString(dataTransfer) =>
            ~ret'.called /\ id' = id /\ store' = store
       /\ dataTransfer \notin NodeCreatorKeys => nodes' = nodes]_vars

\* C7: after an onNodesDelete event the store's selected node is null,
\* whichever nodes were deleted, and the nodes and the edges are unchanged.
C7_DeleteClearsSelection ==
  [][handler' = "onNodesDelete" =>
       /\ selectedNode' = null
       /\ nodes' = nodes
       /\ edges' = edges]_vars

\* a node other than the first of the store was deleted, with nodes and an edge in the store
C7_Witness ==
  /\ handler = "onNodesDelete"
  /\ selectedNode = null
  /\ Len(nodes) = 2
  /\ arg.nodes = <<nodes[2]>>
  /\ edges # <<>>

\* C8: a selection change with a non-empty list stores the list's first node
\* as the selected node; with an empty list it leaves the selected node as it
\* is; in both cases the nodes and the edges are unchanged.
C8_SelectionChange ==
  [][handler' = "onSelectionChange" =>
       /\ Len(arg'.nodes) # 0 => selectedNode' = arg'.nodes[1]
       /\ Len(arg'.nodes) = 0 => selectedNode' = selectedNode
       /\ nodes' = nodes
       /\ edges' = edges]_vars

\* an empty selection was reported while a node is selected
C8_Witness ==
  /\ handler = "onSelectionChange"
  /\ arg.nodes = <<>>
  /\ selectedNode # null
  /\ IsNode(selectedNode)
  /\ edges # <<>>

====
